---- MODULE Spec2Model ----
(***************************************************************************)
(* Model of core/src/air/public_values.rs: the PublicValues codec.         *)
(*                                                                         *)
(*   to_vec               PublicValues<u32, u32>  ->  Vec<F>               *)
(*   from_vec             Vec<F>  ->  PublicValues<Word<F>, F>             *)
(*   commit_digest_bytes  PublicValues<Word<F>, F>  ->  Vec<u8>            *)
(*                                                                         *)
(* A u32 is kept at its full width as two 16-bit halves [hi, lo] (value    *)
(* hi * 2^16 + lo), so that the values at and above 2^31 are modelled      *)
(* too. A field element is its canonical representative, 0 .. P - 1; the   *)
(* field F is instantiated with BabyBear, the field of the prover.         *)
(* A call that can panic returns [panic, val]: val holds the returned      *)
(* value (one element) or nothing, panic the message ("" for none).        *)
(***************************************************************************)
EXTENDS Integers, Sequences, FiniteSets, TLC

\* ------------------------------------------------------------ bounds
\* PROOF_MAX_NUM_PVS ranges up to MaxPad elements above the content length.
MaxPad == 1

\* ------------------------------------------------- program constants
PV_DIGEST_NUM_WORDS == 8
\* Word<T>([T; WORD_SIZE]): the bytes of a u32.
WORD_SIZE == 4

\* ------------------------------------------------------ native u32
Half == 2^16
U32(h, l) == [hi |-> h, lo |-> l]
U32Lt(a, b) == a.hi < b.hi \/ (a.hi = b.hi /\ a.lo < b.lo)
\* a - b on u32, for b <= a.
U32Sub(a, b) ==
    IF a.lo >= b.lo
    THEN U32(a.hi - b.hi, a.lo - b.lo)
    ELSE U32(a.hi - b.hi - 1, a.lo + Half - b.lo)

\* u32::to_le_bytes: the four bytes, least significant first.
to_le_bytes(w) == << w.lo % 256, w.lo \div 256, w.hi % 256, w.hi \div 256 >>

\* ------------------------------------------------- the field F (BabyBear)
P == 15 * 2^27 + 1
PU32 == U32(P \div Half, P % Half)

Ok(v) == [panic |-> "", val |-> << v >>]
Panic(msg) == [panic |-> msg, val |-> << >>]
\* A call that has not been made: no value, no panic.
NotCalled == [panic |-> "", val |-> << >>]
IsOk(r) == Len(r.val) = 1
Panicked(r) == r.panic # ""

\* AbstractField::zero
FZero == 0
\* AbstractField::from_canonical_u8
from_canonical_u8(b) == b
\* BabyBear::from_wrapped_u32: n reduced modulo P (n < 2^32 < 3 * P).
from_wrapped_u32(n) ==
    LET r1 == IF U32Lt(n, PU32) THEN n ELSE U32Sub(n, PU32)
        r2 == IF U32Lt(r1, PU32) THEN r1 ELSE U32Sub(r1, PU32)
    IN  r2.hi * Half + r2.lo
\* AbstractField::from_canonical_u32: the input must be below P. For an input
\* that is not, the outcome is the build's: with debug assertions the call
\* panics (debug_assert!(n < P)), without them the value wraps modulo P.
from_canonical_u32(n, debug) ==
    IF ~U32Lt(n, PU32) /\ debug
    THEN Panic("from_canonical_u32: input is not canonical")
    ELSE Ok(from_wrapped_u32(n))
\* PrimeField32::as_canonical_u32
as_canonical_u32(f) == f
\* The cast "as u8": the low 8 bits.
as_u8(n) == n % 256

\* ------------------------------------------------------------ Word<F>
\* impl From<u32> for Word<F>: the little-endian bytes as field elements.
WordFrom(w) == [j \in 1..WORD_SIZE |-> from_canonical_u8(to_le_bytes(w)[j])]
\* impl FromIterator for Word<T>: the next WORD_SIZE items of the iterator,
\* each taken with next().unwrap(); the iterator keeps the rest.
WordFromIter(iter) ==
    IF Len(iter) < WORD_SIZE
    THEN Panic("called Option::unwrap on a None value")
    ELSE Ok([word |-> SubSeq(iter, 1, WORD_SIZE),
             rest |-> SubSeq(iter, WORD_SIZE + 1, Len(iter))])

RECURSIVE Flatten(_)
Flatten(ss) == IF ss = << >> THEN << >> ELSE Head(ss) \o Flatten(Tail(ss))

\* Vec::resize(n, x): cut to n elements, or filled with x up to n.
Resize(v, n, x) ==
    IF Len(v) >= n THEN SubSeq(v, 1, n) ELSE v \o [k \in 1..(n - Len(v)) |-> x]

\* ------------------------------------------------------ PublicValues
PublicValues(digest, shard, start_pc, next_pc, exit_code) ==
    [committed_value_digest |-> digest, shard |-> shard, start_pc |-> start_pc,
     next_pc |-> next_pc, exit_code |-> exit_code]

TooManyPublicValues == "Too many public values"
InvalidNumberOfItems == "Invalid number of items in the serialized vector."

\* to_vec, the digest: each word's elements in array order.
DigestElements(self) ==
    Flatten([i \in 1..PV_DIGEST_NUM_WORDS |-> WordFrom(self.committed_value_digest[i])])
\* to_vec, the four scalars chained after the digest, each a call of
\* from_canonical_u32.
ScalarElements(self, debug) ==
    << from_canonical_u32(self.shard, debug),
       from_canonical_u32(self.start_pc, debug),
       from_canonical_u32(self.next_pc, debug),
       from_canonical_u32(self.exit_code, debug) >>
\* The calls are made in order: the first that panics ends to_vec.
FirstPanic(calls) ==
    calls[CHOOSE k \in 1..Len(calls) :
            ~IsOk(calls[k]) /\ \A m \in 1..(k - 1) : IsOk(calls[m])]
Values(calls) == [k \in 1..Len(calls) |-> calls[k].val[1]]

\* Mutant: the vector is returned as collected, without the resize.
to_vec_NoResize(self, max, debug) ==
    LET scalars == ScalarElements(self, debug)
    IN  IF \E k \in 1..4 : ~IsOk(scalars[k])
        THEN FirstPanic(scalars)
        ELSE LET ret == DigestElements(self) \o Values(scalars)
             IN  IF ~(Len(ret) <= max) THEN Panic(TooManyPublicValues) ELSE Ok(ret)

\* Mutant: next_pc is chained before start_pc.
to_vec_SwapPc(self, max, debug) ==
    LET scalars == ScalarElements(self, debug)
    IN  IF \E k \in 1..4 : ~IsOk(scalars[k])
        THEN FirstPanic(scalars)
        ELSE LET v == Values(scalars)
                 ret == DigestElements(self) \o << v[1], v[3], v[2], v[4] >>
             IN  IF ~(Len(ret) <= max)
                 THEN Panic(TooManyPublicValues)
                 ELSE Ok(Resize(ret, max, FZero))

\* Mutant: the assertion is ret.len() < PROOF_MAX_NUM_PVS.
to_vec_StrictBound(self, max, debug) ==
    LET scalars == ScalarElements(self, debug)
    IN  IF \E k \in 1..4 : ~IsOk(scalars[k])
        THEN FirstPanic(scalars)
        ELSE LET ret == DigestElements(self) \o Values(scalars)
             IN  IF ~(Len(ret) < max)
                 THEN Panic(TooManyPublicValues)
                 ELSE Ok(Resize(ret, max, FZero))

\* Mutant: a word's elements are its 16-bit halves shifted, not its bytes:
\* the second and fourth byte are not masked off.
to_vec_Unmasked(self, max, debug) ==
    LET scalars == ScalarElements(self, debug)
        word(w) == << w.lo, w.lo \div 256, w.hi, w.hi \div 256 >>
    IN  IF \E k \in 1..4 : ~IsOk(scalars[k])
        THEN FirstPanic(scalars)
        ELSE LET ret == Flatten([i \in 1..PV_DIGEST_NUM_WORDS |->
                                    word(self.committed_value_digest[i])])
                        \o Values(scalars)
             IN  IF ~(Len(ret) <= max)
                 THEN Panic(TooManyPublicValues)
                 ELSE Ok(Resize(ret, max, FZero))

\* Mutant: zero is chained in the place of exit_code.
to_vec_DropExit(self, max, debug) ==
    LET scalars == ScalarElements(self, debug)
    IN  IF \E k \in 1..4 : ~IsOk(scalars[k])
        THEN FirstPanic(scalars)
        ELSE LET ret == DigestElements(self) \o SubSeq(Values(scalars), 1, 3)
                        \o << FZero >>
             IN  IF ~(Len(ret) <= max)
                 THEN Panic(TooManyPublicValues)
                 ELSE Ok(Resize(ret, max, FZero))

\* PublicValues<u32, u32>::to_vec, with PROOF_MAX_NUM_PVS = max.
to_vec(self, max, debug) ==
    LET scalars == ScalarElements(self, debug)
    IN  IF \E k \in 1..4 : ~IsOk(scalars[k])
        THEN FirstPanic(scalars)
        ELSE LET ret == DigestElements(self) \o Values(scalars)
             IN  IF ~(Len(ret) <= max)
                 THEN Panic(TooManyPublicValues)
                 ELSE Ok(Resize(ret, max, FZero))

\* The loop of from_vec: n words taken from the iterator in order.
RECURSIVE TakeWords(_, _)
TakeWords(iter, n) ==
    IF n = 0
    THEN Ok([words |-> << >>, rest |-> iter])
    ELSE LET w == WordFromIter(iter)
         IN  IF ~IsOk(w)
             THEN Panic(w.panic)
             ELSE LET r == TakeWords(w.val[1].rest, n - 1)
                  IN  IF ~IsOk(r)
                      THEN r
                      ELSE Ok([words |-> << w.val[1].word >> \o r.val[1].words,
                               rest |-> r.val[1].rest])

\* Mutant: start_pc and next_pc are bound in the other order.
from_vec_SwapPc(data) ==
    LET d == TakeWords(data, PV_DIGEST_NUM_WORDS)
    IN  IF ~IsOk(d)
        THEN Panic(d.panic)
        ELSE LET remaining_items == d.val[1].rest
             IN  IF Len(remaining_items) < 4
                 THEN Panic(InvalidNumberOfItems)
                 ELSE Ok(PublicValues(d.val[1].words,
                                      remaining_items[1], remaining_items[3],
                                      remaining_items[2], remaining_items[4]))

\* Mutant: the missing scalars of a short vector default to zero.
from_vec_DefaultMissing(data) ==
    LET d == TakeWords(data, PV_DIGEST_NUM_WORDS)
    IN  IF ~IsOk(d)
        THEN Panic(d.panic)
        ELSE LET remaining_items == d.val[1].rest \o << FZero, FZero, FZero, FZero >>
             IN  Ok(PublicValues(d.val[1].words,
                                 remaining_items[1], remaining_items[2],
                                 remaining_items[3], remaining_items[4]))

\* Mutant: exit_code is the last of the remaining items, not the fourth.
from_vec_LastIsExit(data) ==
    LET d == TakeWords(data, PV_DIGEST_NUM_WORDS)
    IN  IF ~IsOk(d)
        THEN Panic(d.panic)
        ELSE LET remaining_items == d.val[1].rest
             IN  IF Len(remaining_items) < 4
                 THEN Panic(InvalidNumberOfItems)
                 ELSE Ok(PublicValues(d.val[1].words,
                                      remaining_items[1], remaining_items[2],
                                      remaining_items[3],
                                      remaining_items[Len(remaining_items)]))

\* PublicValues<Word<F>, F>::from_vec
from_vec(data) ==
    LET d == TakeWords(data, PV_DIGEST_NUM_WORDS)
    IN  IF ~IsOk(d)
        THEN Panic(d.panic)
        ELSE LET remaining_items == d.val[1].rest
             IN  IF Len(remaining_items) < 4
                 THEN Panic(InvalidNumberOfItems)
                 ELSE Ok(PublicValues(d.val[1].words,
                                      remaining_items[1], remaining_items[2],
                                      remaining_items[3], remaining_items[4]))

\* Mutant: the cast saturates at 255.
commit_digest_bytes_Saturating(self) ==
    Flatten([i \in 1..Len(self.committed_value_digest) |->
               [j \in 1..Len(self.committed_value_digest[i]) |->
                  IF as_canonical_u32(self.committed_value_digest[i][j]) > 255
                  THEN 255
                  ELSE as_canonical_u32(self.committed_value_digest[i][j])]])

\* Mutant: each word's bytes come out most significant first.
commit_digest_bytes_BigEndian(self) ==
    Flatten([i \in 1..Len(self.committed_value_digest) |->
               [j \in 1..Len(self.committed_value_digest[i]) |->
                  as_u8(as_canonical_u32(self.committed_value_digest[i][
                      Len(self.committed_value_digest[i]) + 1 - j]))]])

\* PublicValues<Word<F>, F>::commit_digest_bytes
commit_digest_bytes(self) ==
    Flatten([i \in 1..Len(self.committed_value_digest) |->
               [j \in 1..Len(self.committed_value_digest[i]) |->
                  as_u8(as_canonical_u32(self.committed_value_digest[i][j]))]])

\* ------------------------------------------------------------ inputs
\* The length of the unpadded content of a packed vector.
ContentLen == PV_DIGEST_NUM_WORDS * WORD_SIZE + 4

\* Native scalars: small values, the values around the field's modulus, and
\* the largest u32.
ScalarSamples == { U32(0, 0), U32((P - 1) \div Half, (P - 1) % Half), PU32,
                   U32(Half - 1, Half - 1) }

ZeroDigest == [i \in 1..PV_DIGEST_NUM_WORDS |-> U32(0, 0)]
\* Word i holds the bytes 4i-3, 4i-2, 4i-1, 4i, least significant first.
CountDigest == [i \in 1..PV_DIGEST_NUM_WORDS |->
                  U32(256 * (4 * i) + (4 * i - 1), 256 * (4 * i - 2) + (4 * i - 3))]
OnesDigest == [i \in 1..PV_DIGEST_NUM_WORDS |-> U32(Half - 1, Half - 1)]
DigestSamples ==
    { ZeroDigest, CountDigest, OnesDigest,
      [ZeroDigest EXCEPT ![1] = U32(0, 255)],
      [ZeroDigest EXCEPT ![PV_DIGEST_NUM_WORDS] = U32(255 * 256, 0)] }

\* shard = 3, start_pc = 0x1000, next_pc = 0x1004, exit_code = 0, zero digest.
ExamplePV == PublicValues(ZeroDigest, U32(0, 3), U32(0, 4096), U32(0, 4100), U32(0, 0))
MixedPV == PublicValues(CountDigest, U32(Half - 1, Half - 1), U32(0, 4096),
                        U32((P - 1) \div Half, (P - 1) % Half), U32(0, 1))
\* The native PublicValues the host packs: the example with one field varied.
PVs ==
    { ExamplePV, MixedPV }
    \cup { [ExamplePV EXCEPT !.committed_value_digest = d] : d \in DigestSamples }
    \cup { [ExamplePV EXCEPT !.shard = x] : x \in ScalarSamples }
    \cup { [ExamplePV EXCEPT !.start_pc = x] : x \in ScalarSamples }
    \cup { [ExamplePV EXCEPT !.next_pc = x] : x \in ScalarSamples }
    \cup { [ExamplePV EXCEPT !.exit_code = x] : x \in ScalarSamples }

\* PROOF_MAX_NUM_PVS, a parameter of the encoder: one below the content
\* length, the content length, and up to MaxPad above it.
MaxPvsChoices == (ContentLen - 1)..(ContentLen + MaxPad)

\* Field elements a vector handed to from_vec may hold in place of the packed
\* ones: a byte, the first non-byte, the largest element.
FieldSamples == { 255, 256, P - 1 }
\* Elements found after the content: zero or not.
TailSamples == { FZero, P - 1 }
\* Lengths a vector handed to from_vec may be cut to.
TruncLens == { 0, 3, 4, 31, 32, 33, 35, 36 }
\* The places of the content that may be overwritten: the ends of the first
\* and last digest word, the scalars.
OverwriteIdx == { 1, 4, 29, 32, 33, 36 }

\* ------------------------------------------------------------- state
VARIABLES
    maxPvs,          \* PROOF_MAX_NUM_PVS
    debugAssertions, \* whether the build checks debug_assert!
    pc,              \* where the shard's public values are
    pv,              \* the native PublicValues<u32, u32> of the shard
    packed,          \* what to_vec returned
    data,            \* the Vec<F> handed to from_vec
    decoded,         \* what from_vec returned
    bytes,           \* what commit_digest_bytes returned
    packCalls,       \* history: the last calls of to_vec, [pv, result]
    unpackCalls      \* history: the last calls of from_vec, [data, result]

vars == << maxPvs, debugAssertions, pc, pv, packed, data, decoded, bytes,
           packCalls, unpackCalls >>

\* The last two entries of a call history.
LastTwo(s) == IF Len(s) > 2 THEN SubSeq(s, Len(s) - 1, Len(s)) ELSE s
\* The last entry of a call history.
LastOne(s) == IF Len(s) = 0 THEN s ELSE << s[Len(s)] >>

Init ==
    /\ maxPvs \in MaxPvsChoices
    /\ debugAssertions \in BOOLEAN
    /\ pc = "host"
    /\ pv \in PVs
    /\ packed = NotCalled
    /\ data = << >>
    /\ decoded = NotCalled
    /\ bytes = NotCalled
    /\ packCalls = << >>
    /\ unpackCalls = << >>

\* The host packs the shard's public values.
ToVec ==
    /\ pc = "host"
    /\ packed' = to_vec(pv, maxPvs, debugAssertions)
    /\ pc' = IF IsOk(packed') THEN "packed" ELSE "aborted"
    /\ packCalls' = LastTwo(Append(packCalls, [pv |-> pv, result |-> packed']))
    /\ UNCHANGED << maxPvs, debugAssertions, pv, data, decoded, bytes, unpackCalls >>

\* The packed vector reaches the consumer as it was packed.
DeliverIntact ==
    /\ pc = "packed"
    /\ data' = packed.val[1]
    /\ pc' = "received"
    /\ UNCHANGED << maxPvs, debugAssertions, pv, packed, decoded, bytes,
                    packCalls, unpackCalls >>

\* The consumer is handed the packed vector with one more element after it.
DeliverExtended ==
    /\ pc = "packed"
    /\ \E x \in TailSamples : data' = Append(packed.val[1], x)
    /\ pc' = "received"
    /\ UNCHANGED << maxPvs, debugAssertions, pv, packed, decoded, bytes,
                    packCalls, unpackCalls >>

\* The consumer is handed the packed vector with a padding element changed.
DeliverPaddingChanged ==
    /\ pc = "packed"
    /\ \E i \in (ContentLen + 1)..Len(packed.val[1]), x \in TailSamples \ {FZero} :
          data' = [packed.val[1] EXCEPT ![i] = x]
    /\ pc' = "received"
    /\ UNCHANGED << maxPvs, debugAssertions, pv, packed, decoded, bytes,
                    packCalls, unpackCalls >>

\* The consumer is handed a prefix of the packed vector.
DeliverTruncated ==
    /\ pc = "packed"
    /\ \E n \in TruncLens :
          /\ n < Len(packed.val[1])
          /\ data' = SubSeq(packed.val[1], 1, n)
    /\ pc' = "received"
    /\ UNCHANGED << maxPvs, debugAssertions, pv, packed, decoded, bytes,
                    packCalls, unpackCalls >>

\* The consumer is handed the packed vector with a content element changed.
DeliverOverwritten ==
    /\ pc = "packed"
    /\ \E i \in OverwriteIdx, x \in FieldSamples :
          /\ i <= Len(packed.val[1])
          /\ data' = [packed.val[1] EXCEPT ![i] = x]
    /\ pc' = "received"
    /\ UNCHANGED << maxPvs, debugAssertions, pv, packed, decoded, bytes,
                    packCalls, unpackCalls >>

\* The consumer unpacks the vector it was handed.
FromVec ==
    /\ pc = "received"
    /\ decoded' = from_vec(data)
    /\ pc' = IF IsOk(decoded') THEN "decoded" ELSE "aborted"
    /\ unpackCalls' = LastTwo(Append(unpackCalls, [data |-> data, result |-> decoded']))
    /\ UNCHANGED << maxPvs, debugAssertions, pv, packed, data, bytes, packCalls >>

\* The consumer extracts the digest's bytes.
CommitDigestBytes ==
    /\ pc = "decoded"
    /\ bytes' = Ok(commit_digest_bytes(decoded.val[1]))
    /\ pc' = "done"
    /\ UNCHANGED << maxPvs, debugAssertions, pv, packed, data, decoded,
                    packCalls, unpackCalls >>

\* The pipeline constructs the next shard's PublicValues; the histories keep
\* the last call of each transform.
NextShard ==
    /\ pc \in {"done", "aborted"}
    /\ pv' \in PVs
    /\ pc' = "host"
    /\ packed' = NotCalled
    /\ data' = << >>
    /\ decoded' = NotCalled
    /\ bytes' = NotCalled
    /\ packCalls' = LastOne(packCalls)
    /\ unpackCalls' = LastOne(unpackCalls)
    /\ UNCHANGED << maxPvs, debugAssertions >>

\* One shard: packed, handed over in any state, unpacked, digest extracted.
Next ==
    \/ ToVec
    \/ DeliverIntact
    \/ DeliverExtended
    \/ DeliverPaddingChanged
    \/ DeliverTruncated
    \/ DeliverOverwritten
    \/ FromVec
    \/ CommitDigestBytes

Spec == Init /\ [][Next]_vars

\* Shard after shard, the content of each vector reaching the consumer as
\* packed: only what follows the content varies.
NextShards ==
    \/ ToVec
    \/ DeliverIntact
    \/ DeliverExtended
    \/ DeliverPaddingChanged
    \/ FromVec
    \/ CommitDigestBytes
    \/ NextShard

SpecShards == Init /\ [][NextShards]_vars

\* ------------------------------------------------- notions of the claims
\* Byte j (0 the least significant) of a u32.
Byte(w, j) == IF j < 2 THEN (w.lo \div 256^j) % 256 ELSE (w.hi \div 256^(j - 2)) % 256
\* The inverse of the word decomposition: the u32 of four byte elements.
Remerge(word) == U32(word[3] + 256 * word[4], word[1] + 256 * word[2])
\* A field element as a u32.
FieldAsU32(f) == U32(f \div Half, f % Half)
\* The u32 f + k * P, for a field element f.
PlusKP(f, k) ==
    LET lo == (f % Half) + k * (P % Half)
    IN  U32((f \div Half) + k * (P \div Half) + (lo \div Half), lo % Half)
\* f is the field element of the u32 n: canonical, and n modulo P.
Encodes(f, n) == f \in 0..(P - 1) /\ \E k \in 0..2 : PlusKP(f, k) = n
Canonical(n) == U32Lt(n, PU32)
CanonicalScalars(p) ==
    /\ Canonical(p.shard)
    /\ Canonical(p.start_pc)
    /\ Canonical(p.next_pc)
    /\ Canonical(p.exit_code)
IsByte(f) == f \in 0..255
Content(v) == SubSeq(v, 1, ContentLen)
\* The four scalars of a PublicValues, in the order of the layout.
ScalarsOf(p) == << p.shard, p.start_pc, p.next_pc, p.exit_code >>
\* A panic of from_vec on a vector too short for the encoding.
TruncatedInput(r) ==
    /\ r.val = << >>
    /\ r.panic \in { InvalidNumberOfItems, "called Option::unwrap on a None value" }
\* The panic of to_vec on a content longer than the maximum.
EncodingOverflow(r) == r.val = << >> /\ r.panic = TooManyPublicValues
\* The consumer was handed the vector to_vec returned, as returned.
Intact == IsOk(packed) /\ pc \notin {"host", "packed"} /\ data = packed.val[1]
\* from_vec has been called on the vector the consumer was handed.
Unpacked == pc \in {"decoded", "done"} \/ (pc = "aborted" /\ IsOk(packed))

\* ---------------------------------------------------------------- C1
\* C1: every vector to_vec returns for a content that fits in the maximum has
\* exactly PROOF_MAX_NUM_PVS elements, and each of its elements at index
\* 8 * 4 + 4 = 36 or higher (counted from 0) is the field's zero.
C1_Padding ==
    (IsOk(packed) /\ ContentLen <= maxPvs)
        => /\ Len(packed.val[1]) = maxPvs
           /\ \A k \in (ContentLen + 1)..Len(packed.val[1]) : packed.val[1][k] = 0
C1_Witness == IsOk(packed) /\ maxPvs > ContentLen /\ pv = MixedPV

\* ---------------------------------------------------------------- C2
\* The digest words of an unpacked PublicValues, re-merged.
RemergedDigest(d) == [i \in 1..Len(d.committed_value_digest) |->
                        Remerge(d.committed_value_digest[i])]
\* The scalars of an unpacked PublicValues, as u32.
ScalarsAsU32(d) == [k \in 1..4 |-> FieldAsU32(ScalarsOf(d)[k])]

\* C2 as stated: from_vec(to_vec(pv)) has the scalars of pv and, re-merged,
\* the digest words of pv, for any u32 scalars and digest words.
C2_RoundTripAnyU32 ==
    (Intact /\ Unpacked)
        => /\ IsOk(decoded)
           /\ ScalarsAsU32(decoded.val[1]) = ScalarsOf(pv)
           /\ RemergedDigest(decoded.val[1]) = pv.committed_value_digest
\* C2 as amended: from_vec(to_vec(pv)) succeeds; its digest words, re-merged,
\* are those of pv for any u32 words; each of its scalars equals the scalar of
\* pv when that scalar is below the field's modulus.
C2_RoundTrip ==
    (Intact /\ Unpacked)
        => /\ IsOk(decoded)
           /\ RemergedDigest(decoded.val[1]) = pv.committed_value_digest
           /\ \A k \in 1..4 :
                 Canonical(ScalarsOf(pv)[k])
                    => ScalarsAsU32(decoded.val[1])[k] = ScalarsOf(pv)[k]
C2_Witness == Intact /\ pc = "decoded" /\ pv = MixedPV

\* ---------------------------------------------------------------- C3
\* C3: in a vector to_vec returns, element 4 * i + j is byte j, least
\* significant first, of digest word i, and elements 32 .. 35 are the field
\* elements of shard, start_pc, next_pc, exit_code in that order; the example
\* packs to 32 zeros followed by 3, 0x1000, 0x1004, 0.
C3_Layout ==
    IsOk(packed)
        => /\ \A i \in 0..(PV_DIGEST_NUM_WORDS - 1), j \in 0..(WORD_SIZE - 1) :
                 packed.val[1][4 * i + j + 1] = Byte(pv.committed_value_digest[i + 1], j)
           /\ \A k \in 1..4 :
                 /\ Encodes(packed.val[1][32 + k], ScalarsOf(pv)[k])
                 /\ Canonical(ScalarsOf(pv)[k])
                       => FieldAsU32(packed.val[1][32 + k]) = ScalarsOf(pv)[k]
           /\ pv = ExamplePV
                 => Content(packed.val[1]) = [k \in 1..32 |-> 0] \o << 3, 4096, 4100, 0 >>
C3_Witness == IsOk(packed) /\ pv = ExamplePV

\* ---------------------------------------------------------------- C4
\* C4: from_vec panics, returning nothing, on every vector of fewer than 36
\* elements (35 elements, and vectors too short for the 8 digest words), and
\* returns a PublicValues for every vector of 36 elements or more.
C4_Truncation ==
    \A c \in 1..Len(unpackCalls) :
        /\ Len(unpackCalls[c].data) < ContentLen => TruncatedInput(unpackCalls[c].result)
        /\ Len(unpackCalls[c].data) >= ContentLen
              => IsOk(unpackCalls[c].result) /\ ~Panicked(unpackCalls[c].result)
C4_Witness ==
    /\ pc = "aborted"
    /\ Len(data) = ContentLen - 1
    /\ TruncatedInput(decoded)

\* ---------------------------------------------------------------- C5
\* to_vec has been called.
Packing == Len(packCalls) > 0 /\ pc # "host"
\* C5 as stated: a content of MAX + 1 elements fails with EncodingOverflow and
\* returns no vector; a content of MAX elements succeeds with no padding
\* element; a content of fewer elements succeeds.
C5_OverflowAnyScalars ==
    Packing
        => /\ ContentLen = maxPvs + 1 => EncodingOverflow(packed)
           /\ ContentLen = maxPvs => IsOk(packed) /\ Len(packed.val[1]) = ContentLen
           /\ ContentLen < maxPvs => IsOk(packed)
\* C5 as amended: the same, for PublicValues whose four scalars are below the
\* field's modulus.
C5_Overflow ==
    (Packing /\ CanonicalScalars(pv))
        => /\ ContentLen = maxPvs + 1 => EncodingOverflow(packed)
           /\ ContentLen = maxPvs
                 => /\ IsOk(packed)
                    /\ ~Panicked(packed)
                    /\ Len(packed.val[1]) = ContentLen
           /\ ContentLen < maxPvs => IsOk(packed) /\ ~Panicked(packed)
C5_Witness ==
    /\ Packing
    /\ CanonicalScalars(pv)
    /\ ContentLen = maxPvs + 1
    /\ EncodingOverflow(packed)

\* ---------------------------------------------------------------- C6
\* C6: two calls of from_vec on vectors of at least 36 elements that agree
\* on their first 36 elements both return, and return equal PublicValues,
\* whatever follows the first 36 elements.
C6_TrailingIgnored ==
    \A a, b \in 1..Len(unpackCalls) :
        ( /\ Len(unpackCalls[a].data) >= ContentLen
          /\ Len(unpackCalls[b].data) >= ContentLen
          /\ Content(unpackCalls[a].data) = Content(unpackCalls[b].data) )
            => /\ IsOk(unpackCalls[a].result)
               /\ unpackCalls[a].result = unpackCalls[b].result
C6_Witness ==
    /\ Len(unpackCalls) = 2
    /\ Len(unpackCalls[1].data) > ContentLen
    /\ Len(unpackCalls[2].data) > Len(unpackCalls[1].data)
    /\ Content(unpackCalls[1].data) = Content(unpackCalls[2].data)
    /\ unpackCalls[1].data[ContentLen + 1] # unpackCalls[2].data[ContentLen + 1]
    /\ IsOk(unpackCalls[2].result)

\* ---------------------------------------------------------------- C7
\* The elements of an unpacked digest, in order.
DigestOf(d) == Flatten(d.committed_value_digest)
\* C7: commit_digest_bytes returns 8 * 4 = 32 bytes, byte 4 * i + j the low
\* 8 bits of element j of digest word i, also for an element above 255; a
\* digest of zeros but for one element 0xFF gives 0xFF there and zeros.
C7_DigestBytes ==
    pc = "done"
        => /\ IsOk(bytes) /\ ~Panicked(bytes)
           /\ Len(bytes.val[1]) = PV_DIGEST_NUM_WORDS * WORD_SIZE
           /\ \A i \in 0..(PV_DIGEST_NUM_WORDS - 1), j \in 0..(WORD_SIZE - 1) :
                 /\ IsByte(bytes.val[1][4 * i + j + 1])
                 /\ (decoded.val[1].committed_value_digest[i + 1][j + 1]
                       - bytes.val[1][4 * i + j + 1]) % 256 = 0
           /\ \A k \in 1..(PV_DIGEST_NUM_WORDS * WORD_SIZE) :
                 DigestOf(decoded.val[1])
                       = [m \in 1..(PV_DIGEST_NUM_WORDS * WORD_SIZE) |->
                            IF m = k THEN 255 ELSE 0]
                    => bytes.val[1] = [m \in 1..(PV_DIGEST_NUM_WORDS * WORD_SIZE) |->
                                         IF m = k THEN 255 ELSE 0]
C7_Witness ==
    /\ pc = "done"
    /\ \E k \in 1..(PV_DIGEST_NUM_WORDS * WORD_SIZE) :
          /\ DigestOf(decoded.val[1])[k] = 256
          /\ bytes.val[1][k] = 0

\* ---------------------------------------------------------------- C8
\* C8 as stated: the digest elements (indices 0 .. 31) of every vector to_vec
\* returns are bytes, and so are the digest elements of every PublicValues
\* from_vec returns, whatever vector it was given.
C8_BytesEnforcedByBoth ==
    /\ IsOk(packed) => \A k \in 1..(PV_DIGEST_NUM_WORDS * WORD_SIZE) : IsByte(packed.val[1][k])
    /\ (pc \in {"decoded", "done"})
          => \A k \in 1..(PV_DIGEST_NUM_WORDS * WORD_SIZE) : IsByte(DigestOf(decoded.val[1])[k])
\* C8 as amended: the digest elements of every vector to_vec returns are
\* bytes; from_vec checks no range: the digest elements it returns are the
\* first 32 elements it was given, bytes when those are, as in a vector
\* to_vec returned.
C8_BytesEnforcedByPack ==
    /\ IsOk(packed) => \A k \in 1..(PV_DIGEST_NUM_WORDS * WORD_SIZE) : IsByte(packed.val[1][k])
    /\ (pc \in {"decoded", "done"})
          => /\ DigestOf(decoded.val[1]) = SubSeq(data, 1, PV_DIGEST_NUM_WORDS * WORD_SIZE)
             /\ Intact => \A k \in 1..(PV_DIGEST_NUM_WORDS * WORD_SIZE) :
                             IsByte(DigestOf(decoded.val[1])[k])
C8_Witness ==
    /\ pc = "decoded"
    /\ Intact
    /\ pv.committed_value_digest = OnesDigest
    /\ \A k \in 1..(PV_DIGEST_NUM_WORDS * WORD_SIZE) : DigestOf(decoded.val[1])[k] = 255

\* ---------------------------------------------------------------- C9
\* C9: the bytes commit_digest_bytes returns for from_vec(to_vec(pv)) are the
\* 4-byte little-endian encodings of the 8 digest words of pv, in array
\* order, whatever the four scalars of pv.
C9_DigestEndToEnd ==
    (Intact /\ pc = "done")
        => bytes.val[1] = Flatten([i \in 1..PV_DIGEST_NUM_WORDS |->
                                      to_le_bytes(pv.committed_value_digest[i])])
C9_Witness ==
    /\ Intact
    /\ pc = "done"
    /\ pv = MixedPV
    /\ bytes.val[1] = [k \in 1..(PV_DIGEST_NUM_WORDS * WORD_SIZE) |-> k]

\* --------------------------------------------------------------- C10
\* C10 as stated: two PublicValues that differ, in a digest word or in a
\* scalar of any u32 value, are packed to vectors that differ in one of
\* their first 36 elements.
C10_InjectiveAnyU32 ==
    \A a, b \in 1..Len(packCalls) :
        (IsOk(packCalls[a].result) /\ IsOk(packCalls[b].result)
            /\ packCalls[a].pv # packCalls[b].pv)
          => Content(packCalls[a].result.val[1]) # Content(packCalls[b].result.val[1])
\* C10 as amended: two PublicValues that differ and whose scalars are all
\* below the field's modulus are packed to vectors that differ in one of
\* their first 36 elements; the digest words may be any u32.
C10_Injective ==
    \A a, b \in 1..Len(packCalls) :
        (IsOk(packCalls[a].result) /\ IsOk(packCalls[b].result)
            /\ packCalls[a].pv # packCalls[b].pv
            /\ CanonicalScalars(packCalls[a].pv) /\ CanonicalScalars(packCalls[b].pv))
          => Content(packCalls[a].result.val[1]) # Content(packCalls[b].result.val[1])
C10_Witness ==
    /\ Len(packCalls) = 2
    /\ IsOk(packCalls[1].result) /\ IsOk(packCalls[2].result)
    /\ CanonicalScalars(packCalls[1].pv) /\ CanonicalScalars(packCalls[2].pv)
    /\ packCalls[1].pv.committed_value_digest = packCalls[2].pv.committed_value_digest
    /\ packCalls[1].pv.exit_code # packCalls[2].pv.exit_code

====
